---- MODULE Spec2Model ----
(***************************************************************************)
(* CodeQualityInspector (code_quality_inspector.py): the history walk over *)
(* a git commit log, the per-file metric extraction, the lines-of-code     *)
(* weighted aggregation of the project and of the history timeline, and    *)
(* the CSV report writer.                                                  *)
(***************************************************************************)
EXTENDS Integers, Sequences, FiniteSets, TLC

(***************************************************************************)
(* Bounds of the model.                                                    *)
(***************************************************************************)
\* Width of the significand of the binary floating-point format.  Python's
\* float has 53 bits and rounds to nearest, ties to even; the model keeps
\* the same arithmetic on a narrower significand.
MantissaBits == 6
\* Longest commit log of the repository.
MaxCommits == 2
\* Most calls of inspect_project on one inspector.
MaxCalls == 2
\* Longest group of samples handed to the aggregation methods on their own.
MaxSamples == 2

(***************************************************************************)
(* Python numbers.  An int is a TLA+ integer.  A float is a                *)
(* non-negative dyadic rational [n, d] in lowest terms (d a power of two)  *)
(* whose significand fits MantissaBits bits.  Every metric of the program  *)
(* is non-negative.                                                        *)
(***************************************************************************)
Pow2(k) == 2 ^ k

RECURSIVE Gcd(_, _)
Gcd(a, b) == IF b = 0 THEN a ELSE Gcd(b, a % b)

Reduce(n, d) == LET g == Gcd(n, d) IN [n |-> n \div g, d |-> d \div g]

Zero == [n |-> 0, d |-> 1]

\* The value raised by a division by zero (ZeroDivisionError).
ZeroDivisionError == [n |-> 0, d |-> 0]

FromInt(k) == [n |-> k, d |-> 1]

\* The float nearest to the positive rational n/d, ties to even: n/d is
\* scaled by a power of two into [2^(p-1), 2^p), the significand is rounded
\* to an integer, and the result is scaled back.
RECURSIVE RoundPos(_, _)
RoundPos(n, d) ==
    IF n < Pow2(MantissaBits - 1) * d
    THEN LET r == RoundPos(2 * n, d) IN Reduce(r.n, 2 * r.d)
    ELSE IF n >= Pow2(MantissaBits) * d
    THEN LET r == RoundPos(n, 2 * d) IN Reduce(2 * r.n, r.d)
    ELSE LET q == n \div d
             r == n % d
             m == IF 2 * r > d \/ (2 * r = d /\ q % 2 = 1) THEN q + 1 ELSE q
         IN  Reduce(m, 1)

Round(n, d) == IF n = 0 THEN Zero ELSE RoundPos(n, d)

\* float * int, float + float, float / int, each rounded once.
FloatMul(x, k) == Round(x.n * k, x.d)

FloatAdd(x, y) == Round(x.n * y.d + y.n * x.d, x.d * y.d)

FloatDiv(x, k) == IF k = 0 THEN ZeroDivisionError ELSE Round(x.n, x.d * k)

(***************************************************************************)
(* The repository (git.Repo) and the analysis library (radon), as the      *)
(* program sees them.  A path is the sequence of its characters.           *)
(***************************************************************************)
DunderInit == <<"_", "_", "i", "n", "i", "t", "_", "_">>
InitPy == DunderInit \o <<".", "p", "y">>
APy == <<"a", ".", "p", "y">>
BPy == <<"b", ".", "p", "y">>
AMd == <<"a", ".", "m", "d">>
DDir == <<"d", ".", "p", "y">>
DirAPy == DDir \o <<"/">> \o APy

\* File contents.  SrcOne is a module without blocks, SrcFun a module with
\* three blocks, SrcBad does not parse, and the line analysis of SrcLate
\* fails after its blocks and maintainability were computed.
SrcEmpty == ""
SrcOne == "x = 1"
SrcFun == "def f(): ... def g(): ... def h(): ..."
SrcBad == "def f(:"
SrcLate == "def k(): ... \f"

Ok(v) == [raises |-> FALSE, value |-> v]
Raises == [raises |-> TRUE, value |-> 0]

\* radon.complexity.cc_visit: the complexity of each block of the content.
cc_visit(content) ==
    CASE content = SrcOne -> Ok(<<>>)
      [] content = SrcFun -> Ok(<<1, 1, 2>>)
      [] content = SrcLate -> Ok(<<3>>)
      [] OTHER -> Raises

\* radon.metrics.mi_visit(content, multi=True): a float.
mi_visit(content) ==
    CASE content = SrcOne -> Ok(FromInt(100))
      [] content = SrcFun -> Ok(Round(61, 2))
      [] content = SrcLate -> Ok(FromInt(50))
      [] OTHER -> Raises

\* radon.raw.analyze(content).loc: an int.
analyze_loc(content) ==
    CASE content = SrcOne -> Ok(1)
      [] content = SrcFun -> Ok(6)
      [] OTHER -> Raises

Blob(path, content) == [type |-> "blob", path |-> path, content |-> content]
Subtree(path) == [type |-> "tree", path |-> path, content |-> SrcEmpty]

\* The trees a commit can have, each in the order commit.tree.traverse()
\* yields its entries.
Trees ==
    { <<Blob(InitPy, SrcOne), Blob(AMd, SrcFun)>>,
      <<Blob(InitPy, SrcEmpty), Blob(APy, SrcBad), Blob(BPy, SrcOne)>>,
      <<Blob(APy, SrcFun), Blob(BPy, SrcEmpty), Subtree(DDir), Blob(DirAPy, SrcLate)>> }

\* commit.committed_date, in seconds since the epoch.
Timestamps == {59, 60}

Commits == [committed_date : Timestamps, tree : Trees]

\* The commit logs, newest commit first (the order of repo.iter_commits).
Repos == UNION { [1..n -> Commits] : n \in 1..MaxCommits }

(***************************************************************************)
(* Library functions of the walk.                                          *)
(***************************************************************************)
Min(a, b) == IF a <= b THEN a ELSE b

\* str.endswith
EndsWith(s, suffix) ==
    /\ Len(s) >= Len(suffix)
    /\ SubSeq(s, Len(s) - Len(suffix) + 1, Len(s)) = suffix

\* The index of the last occurrence of c in s, 0 when there is none (str.rfind + 1).
RECURSIVE RFind(_, _, _)
RFind(s, c, i) ==
    IF i = 0 THEN 0 ELSE IF s[i] = c THEN i ELSE RFind(s, c, i - 1)

\* item.name: os.path.basename of the path.
Basename(path) == SubSeq(path, RFind(path, "/", Len(path)) + 1, Len(path))

\* The first index of name that is not a dot, Len(name) + 1 when all are.
RECURSIVE LeadingDots(_, _)
LeadingDots(name, i) ==
    IF i > Len(name) \/ name[i] # "." THEN i ELSE LeadingDots(name, i + 1)

\* os.path.splitext(name)[0]: the name up to its last dot, the whole name
\* when the last dot is among the leading dots or there is none.
SplitextRoot(name) ==
    LET dot == RFind(name, ".", Len(name))
    IN  IF dot >= LeadingDots(name, 1) /\ dot > 0
        THEN SubSeq(name, 1, dot - 1)
        ELSE name

\* datetime.fromtimestamp(t).strftime("%Y-%m-%d %H:%M:%S") for a time in
\* the first hour of the epoch day: the zero-padded minute and second
\* fields, the fields before them being the same for all these times.
FormatDate(t) == <<(t \div 60) \div 10, (t \div 60) % 10, (t % 60) \div 10, (t % 60) % 10>>

\* s < t on strings (sequences of digits here): lexicographic order.
RECURSIVE StrLess(_, _)
StrLess(s, t) ==
    IF t = <<>> THEN FALSE
    ELSE IF s = <<>> THEN TRUE
    ELSE IF Head(s) # Head(t) THEN Head(s) < Head(t)
    ELSE StrLess(Tail(s), Tail(t))

RECURSIVE Sum(_)
Sum(s) == IF s = <<>> THEN 0 ELSE Head(s) + Sum(Tail(s))

\* statistics.mean of a non-empty sequence of ints.
mean(xs) == Round(Sum(xs), Len(xs))

(***************************************************************************)
(* Python dicts.  A row (a dict of one sample) is a function from its keys *)
(* to their values.  A defaultdict(list) is its keys in insertion order    *)
(* and the list of each key.                                               *)
(***************************************************************************)
SetKey(m, key, v) == [k \in DOMAIN m \cup {key} |-> IF k = key THEN v ELSE m[k]]

EmptyDict == [keys |-> <<>>, at |-> <<>>]

HasKey(h, key) == \E i \in DOMAIN h.keys : h.keys[i] = key

KeyIndex(h, key) == CHOOSE i \in DOMAIN h.keys : h.keys[i] = key

\* h[key], the list of the key ([] for a key the defaultdict does not hold).
Get(h, key) == IF HasKey(h, key) THEN h.at[KeyIndex(h, key)] ELSE <<>>

\* h[key].append(v)
DictAppend(h, key, v) ==
    IF HasKey(h, key)
    THEN [h EXCEPT !.at[KeyIndex(h, key)] = Append(@, v)]
    ELSE [keys |-> Append(h.keys, key), at |-> Append(h.at, <<v>>)]

(***************************************************************************)
(* The state: the repository the inspector reads, the four accumulators of *)
(* CodeQualityInspector, last_call (whether the last inspect_project       *)
(* inspected the history, and how many commits the last walk that filled   *)
(* _history_metrics_by_file visited), and the outcome of                   *)
(* write_metrics_to_csv: the _write_to_csv calls it made, the tables those *)
(* wrote, and whether it was called.                                       *)
(***************************************************************************)
VARIABLES repo, _metrics, _metrics_by_file, _history_metrics,
          _history_metrics_by_file, last_call, attempted, written, exported

vars == <<repo, _metrics, _metrics_by_file, _history_metrics,
          _history_metrics_by_file, last_call, attempted, written, exported>>

None == -1

(***************************************************************************)
(* _calculate_metrics                                                      *)
(***************************************************************************)
ZeroSample ==
    [Ciclomatic_Complexity |-> Zero, Maintainability |-> Zero, Lines_of_Code |-> 0]

\* _calculate_metrics whose handler resets only what was not computed yet.
_calculate_metrics_KeepsComputed(file_content, file_name) ==
    LET cyclomatic_complexity_visit == cc_visit(file_content)
        maintainability == mi_visit(file_content)
        raw == analyze_loc(file_content)
    IN  [Ciclomatic_Complexity |->
             IF cyclomatic_complexity_visit.raises THEN Zero
             ELSE IF Len(cyclomatic_complexity_visit.value) # 0
             THEN mean(cyclomatic_complexity_visit.value)
             ELSE Zero,
         Maintainability |->
             IF cyclomatic_complexity_visit.raises \/ maintainability.raises
             THEN Zero ELSE maintainability.value,
         Lines_of_Code |->
             IF cyclomatic_complexity_visit.raises \/ maintainability.raises \/ raw.raises
             THEN 0 ELSE raw.value]

_calculate_metrics(file_content, file_name) ==
    LET cyclomatic_complexity_visit == cc_visit(file_content)
        maintainability == mi_visit(file_content)
        raw == analyze_loc(file_content)
    IN  IF cyclomatic_complexity_visit.raises \/ maintainability.raises \/ raw.raises
        THEN ZeroSample
        ELSE [Ciclomatic_Complexity |->
                  IF Len(cyclomatic_complexity_visit.value) # 0
                  THEN mean(cyclomatic_complexity_visit.value)
                  ELSE Zero,
              Maintainability |-> maintainability.value,
              Lines_of_Code |-> raw.value]

(***************************************************************************)
(* _generate_history_metrics_by_file                                       *)
(***************************************************************************)
\* repo.iter_commits(max_count=max_count)
iter_commits(r, max_count) ==
    IF max_count = None THEN r ELSE SubSeq(r, 1, Min(max_count, Len(r)))

\* WalkItem skipping a file only when it is both empty and named __init__.
WalkItem_SkipsBoth(item, commit, h) ==
    IF item.type = "blob" /\ EndsWith(item.path, <<".", "p", "y">>)
    THEN LET file_date == FormatDate(commit.committed_date)
             file_name == SplitextRoot(Basename(item.path))
             file_content == item.content
         IN  IF Len(file_content) = 0 /\ file_name = DunderInit
             THEN h
             ELSE DictAppend(h, file_name,
                      SetKey(_calculate_metrics(file_content, file_name),
                             "Date", file_date))
    ELSE h

\* WalkItem setting the File key where it sets the Date key.
WalkItem_SetsFile(item, commit, h) ==
    IF item.type = "blob" /\ EndsWith(item.path, <<".", "p", "y">>)
    THEN LET file_date == FormatDate(commit.committed_date)
             file_name == SplitextRoot(Basename(item.path))
             file_content == item.content
         IN  IF Len(file_content) = 0 \/ file_name = DunderInit
             THEN h
             ELSE DictAppend(h, file_name,
                      SetKey(SetKey(_calculate_metrics(file_content, file_name),
                                    "Date", file_date),
                             "File", file_name))
    ELSE h

\* The body of the loop over commit.tree.traverse(), for one item.
WalkItem(item, commit, h) ==
    IF item.type = "blob" /\ EndsWith(item.path, <<".", "p", "y">>)
    THEN LET file_date == FormatDate(commit.committed_date)
             file_name == SplitextRoot(Basename(item.path))
             file_content == item.content
         IN  IF Len(file_content) = 0 \/ file_name = DunderInit
             THEN h
             ELSE DictAppend(h, file_name,
                      SetKey(_calculate_metrics(file_content, file_name),
                             "Date", file_date))
    ELSE h

RECURSIVE WalkTree(_, _, _)
WalkTree(items, commit, h) ==
    IF items = <<>> THEN h
    ELSE WalkTree(Tail(items), commit, WalkItem(Head(items), commit, h))

RECURSIVE WalkCommits(_, _)
WalkCommits(commits, h) ==
    IF commits = <<>> THEN h
    ELSE WalkCommits(Tail(commits), WalkTree(Head(commits).tree, Head(commits), h))

_generate_history_metrics_by_file(r, max_count) ==
    WalkCommits(iter_commits(r, max_count), EmptyDict)

(***************************************************************************)
(* _generate_project_metrics_by_file                                       *)
(***************************************************************************)
\* The rows the loop over history_metrics_by_file.items() appends.
RECURSIVE HeadRows(_, _)
HeadRows(h, i) ==
    IF i > Len(h.keys) THEN <<>>
    ELSE <<SetKey(h.at[i][1], "File", h.keys[i])>> \o HeadRows(h, i + 1)

_generate_project_metrics_by_file(r, metrics_by_file) ==
    metrics_by_file \o HeadRows(_generate_history_metrics_by_file(r, 1), 1)

(***************************************************************************)
(* The weighted aggregation of _generate_project_metrics and of            *)
(* _generate_history_metrics: the same loop and the same division.         *)
(***************************************************************************)
\* Totals with the metrics summed without their Lines_of_Code weight.
RECURSIVE Totals_Unweighted(_, _)
Totals_Unweighted(rows, t) ==
    IF rows = <<>> THEN t
    ELSE LET metrics == Head(rows)
         IN  Totals_Unweighted(Tail(rows),
                 [total_ciclomatic |->
                      FloatAdd(t.total_ciclomatic, metrics.Ciclomatic_Complexity),
                  total_maintainability |->
                      FloatAdd(t.total_maintainability, metrics.Maintainability),
                  total_loc |-> t.total_loc + metrics.Lines_of_Code])

\* The three totals after the loop over the rows, starting from t.
RECURSIVE Totals(_, _)
Totals(rows, t) ==
    IF rows = <<>> THEN t
    ELSE LET metrics == Head(rows)
         IN  Totals(Tail(rows),
                 [total_ciclomatic |->
                      FloatAdd(t.total_ciclomatic,
                               FloatMul(metrics.Ciclomatic_Complexity,
                                        metrics.Lines_of_Code)),
                  total_maintainability |->
                      FloatAdd(t.total_maintainability,
                               FloatMul(metrics.Maintainability,
                                        metrics.Lines_of_Code)),
                  total_loc |-> t.total_loc + metrics.Lines_of_Code])

\* WeightedAvg without its guard: total / total_loc.
WeightedAvg_Unguarded(total, total_loc) == FloatDiv(total, total_loc)

\* total / total_loc if total_loc else 0
WeightedAvg(total, total_loc) ==
    IF total_loc # 0 THEN FloatDiv(total, total_loc) ELSE Zero

WeightedRow(rows) ==
    LET t == Totals(rows, [total_ciclomatic |-> Zero,
                           total_maintainability |-> Zero,
                           total_loc |-> 0])
    IN  [Ciclomatic_Complexity |-> WeightedAvg(t.total_ciclomatic, t.total_loc),
         Maintainability |-> WeightedAvg(t.total_maintainability, t.total_loc),
         Lines_of_Code |-> t.total_loc]

_generate_project_metrics(metrics, metrics_by_file) ==
    Append(metrics, WeightedRow(metrics_by_file))

(***************************************************************************)
(* _generate_history_metrics                                               *)
(***************************************************************************)
\* metrics_by_date after the two loops over self._history_metrics_by_file.
RECURSIVE GroupSeries(_, _)
GroupSeries(series, by_date) ==
    IF series = <<>> THEN by_date
    ELSE GroupSeries(Tail(series), DictAppend(by_date, Head(series).Date, Head(series)))

RECURSIVE GroupByDate(_, _, _)
GroupByDate(h, i, by_date) ==
    IF i > Len(h.keys) THEN by_date
    ELSE GroupByDate(h, i + 1, GroupSeries(h.at[i], by_date))

\* sorted(keys, reverse=True): insertion into a descending list.
RECURSIVE InsertDesc(_, _)
InsertDesc(sorted, k) ==
    IF sorted = <<>> THEN <<k>>
    ELSE IF StrLess(Head(sorted), k) THEN <<k>> \o sorted
    ELSE <<Head(sorted)>> \o InsertDesc(Tail(sorted), k)

RECURSIVE SortedDesc(_)
SortedDesc(keys) ==
    IF keys = <<>> THEN <<>>
    ELSE InsertDesc(SortedDesc(Tail(keys)), Head(keys))

RECURSIVE DateRows(_, _)
DateRows(sorted_dates, metrics_by_date) ==
    IF sorted_dates = <<>> THEN <<>>
    ELSE LET date == Head(sorted_dates)
         IN  <<SetKey(WeightedRow(Get(metrics_by_date, date)), "Date", date)>>
             \o DateRows(Tail(sorted_dates), metrics_by_date)

_generate_history_metrics(history_metrics, history_metrics_by_file) ==
    LET metrics_by_date == GroupByDate(history_metrics_by_file, 1, EmptyDict)
        sorted_dates == SortedDesc(metrics_by_date.keys)
    IN  history_metrics \o DateRows(sorted_dates, metrics_by_date)

(***************************************************************************)
(* write_metrics_to_csv and _write_to_csv                                  *)
(***************************************************************************)
MetricsFields == {"Ciclomatic_Complexity", "Maintainability", "Lines_of_Code"}

MetricsCsv == <<"metrics.csv">>
MetricsByFileCsv == <<"metrics_by_file.csv">>
HistoryCsv == <<"history_metrics.csv">>
HistoryFileCsv(file_name) == <<"files_history", file_name>>

Table(path, fieldnames, content) ==
    [path |-> path, fieldnames |-> fieldnames, content |-> content]

RECURSIVE HistoryFileTables(_, _)
HistoryFileTables(h, i) ==
    IF i > Len(h.keys) THEN <<>>
    ELSE <<Table(HistoryFileCsv(h.keys[i]), MetricsFields \cup {"Date"}, h.at[i])>>
         \o HistoryFileTables(h, i + 1)

\* The _write_to_csv calls of write_metrics_to_csv, in the order it makes them.
WriteCalls(metrics, metrics_by_file, history_metrics_by_file, history_metrics) ==
    <<Table(MetricsCsv, MetricsFields, metrics),
      Table(MetricsByFileCsv, MetricsFields \cup {"File", "Date"}, metrics_by_file)>>
    \o HistoryFileTables(history_metrics_by_file, 1)
    \o <<Table(HistoryCsv, MetricsFields \cup {"Date"}, history_metrics)>>

\* _write_to_csv raises when the file cannot be opened or written (its
\* path is in failing) and when csv.DictWriter meets a row with a key that
\* is not a field name.
WriteRaises(table, failing) ==
    \/ table.path \in failing
    \/ \E i \in DOMAIN table.content : ~(DOMAIN table.content[i] \subseteq table.fieldnames)

\* CallsMade going on to the next table after a call that raised.
RECURSIVE CallsMade_GoesOn(_, _)
CallsMade_GoesOn(tables, failing) ==
    IF tables = <<>> THEN <<>>
    ELSE <<Head(tables)>> \o CallsMade_GoesOn(Tail(tables), failing)

\* The calls made before write_metrics_to_csv returns or an exception of a
\* call ends it: an exception of _write_to_csv is not caught.
RECURSIVE CallsMade(_, _)
CallsMade(tables, failing) ==
    IF tables = <<>> THEN <<>>
    ELSE IF WriteRaises(Head(tables), failing) THEN <<Head(tables)>>
    ELSE <<Head(tables)>> \o CallsMade(Tail(tables), failing)

\* The tables a run of CallsMade wrote in full.
Succeeded(made, failing) == SelectSeq(made, LAMBDA t : ~WriteRaises(t, failing))

(***************************************************************************)
(* Actions                                                                 *)
(***************************************************************************)
NoCall == [inspect_history |-> FALSE, walked |-> 0]

\* CodeQualityInspector(project_directory) on some repository.
Init ==
    /\ repo \in Repos
    /\ _metrics = <<>>
    /\ _metrics_by_file = <<>>
    /\ _history_metrics = <<>>
    /\ _history_metrics_by_file = EmptyDict
    /\ last_call = NoCall
    /\ attempted = <<>>
    /\ written = <<>>
    /\ exported = FALSE

\* The values of max_history_count: no limit (0 and below) and the limits
\* shorter than the longest log.
MaxHistoryCounts == (0 - 1)..(MaxCommits - 1)

inspect_project(inspect_history, max_history_count) ==
    /\ ~exported
    /\ Len(_metrics) < MaxCalls
    /\ LET by_file == _generate_project_metrics_by_file(repo, _metrics_by_file)
           max_count == IF max_history_count > 0 THEN max_history_count ELSE None
           history == _generate_history_metrics_by_file(repo, max_count)
       IN  /\ _metrics_by_file' = by_file
           /\ _metrics' = _generate_project_metrics(_metrics, by_file)
           /\ IF inspect_history
              THEN /\ _history_metrics_by_file' = history
                   /\ _history_metrics' = _generate_history_metrics(_history_metrics, history)
              ELSE UNCHANGED <<_history_metrics_by_file, _history_metrics>>
    /\ last_call' =
           [inspect_history |-> inspect_history,
            walked |-> IF inspect_history
                       THEN Len(iter_commits(repo,
                                IF max_history_count > 0 THEN max_history_count ELSE None))
                       ELSE last_call.walked]
    /\ UNCHANGED <<repo, attempted, written, exported>>

InspectProject ==
    \E inspect_history \in BOOLEAN, max_history_count \in MaxHistoryCounts :
        inspect_project(inspect_history, max_history_count)

\* The tables of the inspector, as write_metrics_to_csv hands them to
\* _write_to_csv.
AllTables ==
    WriteCalls(_metrics, _metrics_by_file, _history_metrics_by_file, _history_metrics)

\* write_metrics_to_csv(output_directory), the last operation on the
\* inspector; failing is the set of files that cannot be written.  The
\* output directories are taken to exist or to be created (os.makedirs).
write_metrics_to_csv(failing) ==
    /\ ~exported
    /\ LET made == CallsMade(AllTables, failing)
       IN  /\ attempted' = made
           /\ written' = Succeeded(made, failing)
    /\ exported' = TRUE
    /\ UNCHANGED <<repo, _metrics, _metrics_by_file, _history_metrics,
                   _history_metrics_by_file, last_call>>

WriteMetricsToCsv ==
    \E failing \in SUBSET { AllTables[i].path : i \in DOMAIN AllTables } :
        write_metrics_to_csv(failing)

Next == InspectProject \/ WriteMetricsToCsv

Spec == Init /\ [][Next]_vars

(***************************************************************************)
(* The aggregation methods on their own: _generate_project_metrics and     *)
(* _generate_history_metrics applied to any group of samples, each sample  *)
(* being the row of one file.                                              *)
(***************************************************************************)
\* The (Ciclomatic_Complexity, Maintainability) of a file whose analysis
\* succeeds: a module without blocks, and modules whose blocks have the
\* mean complexity 2 and 4/3.
SampleMetrics ==
    { <<Zero, FromInt(100)>>, <<FromInt(2), FromInt(50)>>,
      <<mean(<<1, 1, 2>>), Round(61, 2)>> }

\* The Lines_of_Code of a file whose analysis succeeds.
SampleLocs == {1, 6}

\* The samples _calculate_metrics returns, dated: those of the analysed
\* files and the sample of a file whose analysis fails.
Samples ==
    { SetKey(m, "Date", FormatDate(t)) :
      m \in { [Ciclomatic_Complexity |-> p[1], Maintainability |-> p[2],
               Lines_of_Code |-> loc] : p \in SampleMetrics, loc \in SampleLocs }
            \cup {ZeroSample},
      t \in Timestamps }

Groups == UNION { [1..n -> Samples] : n \in 0..MaxSamples }

\* The stem of the i-th file of a group.
FileStem(i) == <<"f", i>>

InitAgg ==
    /\ repo = <<>>
    /\ _metrics = <<>>
    /\ _history_metrics = <<>>
    /\ \E g \in Groups :
          /\ _metrics_by_file = [i \in DOMAIN g |-> SetKey(g[i], "File", FileStem(i))]
          /\ _history_metrics_by_file =
                 [keys |-> [i \in DOMAIN g |-> FileStem(i)],
                  at |-> [i \in DOMAIN g |-> <<g[i]>>]]
    /\ last_call = NoCall
    /\ attempted = <<>>
    /\ written = <<>>
    /\ exported = FALSE

\* self._generate_project_metrics() then self._generate_history_metrics(),
\* as inspect_project calls them.
GenerateMetrics ==
    /\ Len(_metrics) < MaxCalls
    /\ _metrics' = _generate_project_metrics(_metrics, _metrics_by_file)
    /\ _history_metrics' =
           _generate_history_metrics(_history_metrics, _history_metrics_by_file)
    /\ UNCHANGED <<repo, _metrics_by_file, _history_metrics_by_file, last_call,
                   attempted, written, exported>>

NextAgg == GenerateMetrics

SpecAgg == InitAgg /\ [][NextAgg]_vars

(***************************************************************************)
(* Properties of the aggregation                                           *)
(***************************************************************************)
RECURSIVE Flatten(_)
Flatten(lists) == IF lists = <<>> THEN <<>> ELSE Head(lists) \o Flatten(Tail(lists))

\* All the samples of FileHistory, file by file.
HistorySamples == Flatten(_history_metrics_by_file.at)

\* The samples of FileHistory that carry the date.
DateGroup(date) == SelectSeq(HistorySamples, LAMBDA m : m.Date = date)

RECURSIVE LocSum(_)
LocSum(rows) == IF rows = <<>> THEN 0 ELSE Head(rows).Lines_of_Code + LocSum(Tail(rows))

IsZeroAggregate(row) ==
    /\ row.Ciclomatic_Complexity = Zero
    /\ row.Maintainability = Zero
    /\ row.Lines_of_Code = 0

\* C1: a group of samples whose Lines_of_Code sum to 0 (the empty group
\* included) aggregates to Ciclomatic_Complexity = 0, Maintainability = 0
\* and Lines_of_Code = 0, not to a division by zero: for the project row
\* and for every row of the history timeline.
C1_ZeroLocAggregatesToZero ==
    /\ LocSum(_metrics_by_file) = 0 =>
           \A i \in DOMAIN _metrics : IsZeroAggregate(_metrics[i])
    /\ \A i \in DOMAIN _history_metrics :
           LocSum(DateGroup(_history_metrics[i].Date)) = 0 =>
               IsZeroAggregate(_history_metrics[i])

\* C1: the project row of a non-empty group with no lines of code has been
\* built, and so have the timeline rows of its two dates.
C1_Witness ==
    /\ Len(_metrics) > 0
    /\ Len(_metrics_by_file) > 0
    /\ LocSum(_metrics_by_file) = 0
    /\ Len(_history_metrics) >= 2

SameComplexity(rows, c) == \A i \in DOMAIN rows : rows[i].Ciclomatic_Complexity = c

Complexities == { m[1] : m \in SampleMetrics }

\* C2 as stated: when all the samples of a group carry the same
\* Ciclomatic_Complexity C, the aggregate of the group carries C.
C2_SameComplexityAggregatesToIt ==
    \A c \in Complexities :
        /\ (_metrics_by_file # <<>> /\ SameComplexity(_metrics_by_file, c)) =>
               \A i \in DOMAIN _metrics : _metrics[i].Ciclomatic_Complexity = c
        /\ \A i \in DOMAIN _history_metrics :
               SameComplexity(DateGroup(_history_metrics[i].Date), c) =>
                   _history_metrics[i].Ciclomatic_Complexity = c

\* C is an int, or a float with an integer value.
IsIntegral(c) == c.d = 1

\* The aggregate complexity of a group whose samples all carry c.
AggregatesSame(rows, c, aggregate) ==
    IF LocSum(rows) = 0 THEN aggregate = Zero
    ELSE IsIntegral(c) => aggregate = c

\* C2 amended: when all the samples of a group carry the same
\* Ciclomatic_Complexity C, the aggregate carries 0 if their Lines_of_Code
\* sum to 0, and carries C if they do not and C is an integer.
C2_SameIntegralComplexity ==
    \A c \in Complexities :
        /\ SameComplexity(_metrics_by_file, c) =>
               \A i \in DOMAIN _metrics :
                   AggregatesSame(_metrics_by_file, c, _metrics[i].Ciclomatic_Complexity)
        /\ \A i \in DOMAIN _history_metrics :
               LET group == DateGroup(_history_metrics[i].Date)
               IN  SameComplexity(group, c) =>
                       AggregatesSame(group, c, _history_metrics[i].Ciclomatic_Complexity)

\* C2: the aggregates of a group of two samples with the same non-zero
\* integer complexity and different, non-zero Lines_of_Code have been built.
C2_Witness ==
    /\ Len(_metrics) > 0
    /\ Len(_metrics_by_file) = 2
    /\ SameComplexity(_metrics_by_file, FromInt(2))
    /\ _metrics_by_file[1].Lines_of_Code > 0
    /\ _metrics_by_file[2].Lines_of_Code > _metrics_by_file[1].Lines_of_Code
    /\ _metrics_by_file[1].Date = _metrics_by_file[2].Date
    /\ Len(_history_metrics) > 0

(***************************************************************************)
(* Properties of the walk, of inspect_project and of the writer            *)
(***************************************************************************)
\* A source file: a .py blob with non-empty content whose stem is not __init__.
Stem(item) == SplitextRoot(Basename(item.path))

IsPyBlob(item) == item.type = "blob" /\ EndsWith(item.path, <<".", "p", "y">>)

IsSourceFile(item) == IsPyBlob(item) /\ item.content # SrcEmpty /\ Stem(item) # DunderInit

\* The analysis of the content raises an error.
AnalysisFails(content) ==
    cc_visit(content).raises \/ mi_visit(content).raises \/ analyze_loc(content).raises

\* The sample of a source file at a commit: all zero when the analysis of
\* its content fails, what the analysis says when it does not.
FileSample(item, commit) ==
    [Ciclomatic_Complexity |->
         IF AnalysisFails(item.content) \/ cc_visit(item.content).value = <<>>
         THEN Zero
         ELSE mean(cc_visit(item.content).value),
     Maintainability |->
         IF AnalysisFails(item.content) THEN Zero ELSE mi_visit(item.content).value,
     Lines_of_Code |->
         IF AnalysisFails(item.content) THEN 0 ELSE analyze_loc(item.content).value,
     Date |-> FormatDate(commit.committed_date)]

\* The samples of the source files of a commit that have the stem.
CommitSamples(commit, stem) ==
    LET items == SelectSeq(commit.tree, LAMBDA item : IsSourceFile(item) /\ Stem(item) = stem)
    IN  [i \in DOMAIN items |-> FileSample(items[i], commit)]

\* The commits the last history walk visited, newest first.
Walked == SubSeq(repo, 1, last_call.walked)

\* The samples of the source files with the stem, over the walked commits.
WalkedSamples(stem) ==
    Flatten([i \in DOMAIN Walked |-> CommitSamples(Walked[i], stem)])

\* The stems of the source files of the commits.
SourceStems(commits) ==
    { Stem(item) :
      item \in { it \in UNION { { commits[i].tree[j] : j \in DOMAIN commits[i].tree } :
                                i \in DOMAIN commits } : IsSourceFile(it) } }

FileHistoryKeys == { _history_metrics_by_file.keys[i] : i \in DOMAIN _history_metrics_by_file.keys }

Occurrences(rows, row) == Cardinality({ i \in DOMAIN rows : rows[i] = row })

\* The rows of the source files of the HEAD commit.
HeadSourceRows ==
    LET head == repo[1]
        items == SelectSeq(head.tree, IsSourceFile)
    IN  [i \in DOMAIN items |-> SetKey(FileSample(items[i], head), "File", Stem(items[i]))]

\* C3 as stated: after inspect_project, metrics_by_file holds one row for
\* each source file of the HEAD commit and no other row.
C3_OneRowPerHeadSourceFile ==
    Len(_metrics) > 0 =>
        /\ Len(_metrics_by_file) = Len(HeadSourceRows)
        /\ \A i \in DOMAIN HeadSourceRows :
               Occurrences(_metrics_by_file, HeadSourceRows[i])
                   = Occurrences(HeadSourceRows, HeadSourceRows[i])

\* C4 as stated: when write_metrics_to_csv is called after one or more
\* calls of inspect_project, the table written to metrics.csv holds one
\* row, the weighted aggregate of the per-file samples.
C4_MetricsCsvHoldsOneRow ==
    (exported /\ Len(_metrics) >= 1) =>
        \A i \in DOMAIN written :
            written[i].path = MetricsCsv =>
                written[i].content = <<WeightedRow(_metrics_by_file)>>

\* The commits among the walked ones in which a source file with the stem
\* appears, newest first.
CommitsWith(stem) ==
    SelectSeq(Walked, LAMBDA commit : CommitSamples(commit, stem) # <<>>)

\* C5 as stated: after a history walk, the series of every file holds one
\* sample for each walked commit in which the file appeared with non-empty
\* content, newest commit first: never two samples of one commit.
C5_OneSamplePerCommit ==
    \A stem \in FileHistoryKeys :
        LET series == Get(_history_metrics_by_file, stem)
        IN  /\ Len(series) = Len(CommitsWith(stem))
            /\ \A i \in DOMAIN series :
                   i <= Len(CommitsWith(stem)) =>
                       series[i].Date = FormatDate(CommitsWith(stem)[i].committed_date)

HistoryDates == { HistorySamples[i].Date : i \in DOMAIN HistorySamples }

\* C6 as stated: after inspect_project with inspect_history = True, the
\* timeline has one entry for each date of the FileHistory samples, in
\* strictly descending order of the dates, and each entry is the aggregate
\* of the samples that carry its date.
C6_TimelineOneEntryPerDate ==
    last_call.inspect_history =>
        /\ { _history_metrics[i].Date : i \in DOMAIN _history_metrics } = HistoryDates
        /\ \A i, j \in DOMAIN _history_metrics :
               i < j => StrLess(_history_metrics[j].Date, _history_metrics[i].Date)
        /\ \A i \in DOMAIN _history_metrics :
               _history_metrics[i] =
                   SetKey(WeightedRow(DateGroup(_history_metrics[i].Date)),
                          "Date", _history_metrics[i].Date)

\* The number of .py blobs with the stem and with non-empty content in the
\* walked commits.
NonEmptyBlobs(stem) ==
    Len(Flatten([i \in DOMAIN Walked |->
            SelectSeq(Walked[i].tree,
                      LAMBDA item : /\ IsPyBlob(item)
                                    /\ Stem(item) = stem
                                    /\ item.content # SrcEmpty)]))

\* C7: in every state, FileHistory has no key __init__, its keys are the
\* stems of the source files of the walked commits, every series holds as
\* many samples as the walked commits hold non-empty .py blobs of its stem
\* (none for an empty blob), and a repository whose only .py file is
\* __init__.py has an empty FileHistory, no per-file row and an empty
\* timeline.
C7_NoInitNoEmptyContent ==
    /\ DunderInit \notin FileHistoryKeys
    /\ FileHistoryKeys = SourceStems(Walked)
    /\ \A stem \in FileHistoryKeys :
           Len(Get(_history_metrics_by_file, stem)) = NonEmptyBlobs(stem)
    /\ \A i \in DOMAIN _metrics_by_file : _metrics_by_file[i].File # DunderInit
    /\ SourceStems(repo) = {} =>
           /\ _history_metrics_by_file = EmptyDict
           /\ _metrics_by_file = <<>>
           /\ _history_metrics = <<>>

HasInit(commit, content) ==
    \E i \in DOMAIN commit.tree : commit.tree[i] = Blob(InitPy, content)

\* C7: a history walk visited a commit with a non-empty __init__.py and a
\* commit with an empty __init__.py, an empty a.py and a b.py that is empty
\* in one of them, and filled FileHistory.
C7_Witness ==
    /\ last_call.inspect_history
    /\ last_call.walked = 2
    /\ \E i, j \in DOMAIN Walked :
           /\ HasInit(Walked[i], SrcOne)
           /\ \E k \in DOMAIN Walked[j].tree : Walked[j].tree[k] = Blob(BPy, SrcEmpty)
    /\ FileHistoryKeys # {}

\* C7: the history of a repository whose only .py file is __init__.py was
\* inspected.
C7_WitnessInitOnly ==
    /\ last_call.inspect_history
    /\ last_call.walked = 2
    /\ SourceStems(repo) = {}

\* C8: every series of FileHistory holds, in the order of the walk, the
\* sample of each source file of its stem in the walked commits: the
\* all-zero sample for a file whose analysis raises an error, and for every
\* other file what its analysis says, whether or not another analysis
\* failed before it.
C8_FailedAnalysisGivesZeroSample ==
    \A stem \in FileHistoryKeys \cup SourceStems(Walked) :
        Get(_history_metrics_by_file, stem) = WalkedSamples(stem)

\* C8: a history walk visited a commit in which the analysis of a.py fails
\* and b.py follows it, and then an older commit with a file whose line
\* analysis fails; a.py has its zero sample and b.py its own sample.
C8_Witness ==
    /\ last_call.inspect_history
    /\ last_call.walked = 2
    /\ repo[1].tree[2] = Blob(APy, SrcBad)
    /\ repo[1].tree[3] = Blob(BPy, SrcOne)
    /\ \E k \in DOMAIN repo[2].tree : repo[2].tree[k] = Blob(DirAPy, SrcLate)
    /\ Len(Get(_history_metrics_by_file, <<"a">>)) = 3
    /\ Get(_history_metrics_by_file, <<"a">>)[1].Lines_of_Code = 0
    /\ Get(_history_metrics_by_file, <<"b">>)[1].Lines_of_Code = 1

\* C9 as stated: write_metrics_to_csv attempts every table, whichever of
\* them fails.
C9_EveryTableAttempted ==
    exported => Len(attempted) = Len(AllTables)

IsWritten(table) == \E i \in DOMAIN written : written[i] = table

\* C9 amended: write_metrics_to_csv attempts the tables in its order up to
\* the first one that fails and no table after it: every attempted table
\* but the last was written, and when a table was not attempted the last
\* attempted one failed.
C9_StopsAtFirstFailure ==
    exported =>
        /\ attempted = SubSeq(AllTables, 1, Len(attempted))
        /\ \A i \in DOMAIN attempted : i < Len(attempted) => IsWritten(attempted[i])
        /\ Len(attempted) < Len(AllTables) => ~IsWritten(attempted[Len(attempted)])

\* C9: after two tables were written the write of a file-history table
\* failed, with tables left.
C9_Witness ==
    /\ exported
    /\ Len(_history_metrics_by_file.keys) = 2
    /\ Len(attempted) = 3
    /\ Len(written) = 2

RowsWithin(rows, fieldnames) == \A i \in DOMAIN rows : DOMAIN rows[i] \subseteq fieldnames

\* C10: in every state, every row of the inspector carries only columns of
\* its table: a project row the three metrics, a per-file row File, Date
\* and the three metrics, a file-history row and a timeline row Date and
\* the three metrics (never File); so no attempted table has a row that
\* csv.DictWriter rejects.
C10_RowsCarryOnlyTheirColumns ==
    /\ RowsWithin(_metrics, MetricsFields)
    /\ RowsWithin(_metrics_by_file, MetricsFields \cup {"File", "Date"})
    /\ RowsWithin(HistorySamples, MetricsFields \cup {"Date"})
    /\ RowsWithin(_history_metrics, MetricsFields \cup {"Date"})
    /\ \A i \in DOMAIN attempted : ~WriteRaises(attempted[i], {})

\* C10: after two calls of inspect_project with inspect_history = True on
\* a repository with source files, write_metrics_to_csv wrote all its
\* tables.
C10_Witness ==
    /\ Len(_metrics) = 2
    /\ last_call.inspect_history
    /\ Len(_metrics_by_file) > 2
    /\ Len(HistorySamples) > 2
    /\ Len(_history_metrics) > 2
    /\ exported
    /\ Len(written) = Len(AllTables)
====
